---- MODULE Spec2Model ----
(***************************************************************************)
(* Model of the currency converter widget (Converter.jsx): the catalog     *)
(* loader, the debounced conversion effect with its AbortController, and   *)
(* the provider fallback chain convertWithFallback.                        *)
(*                                                                         *)
(* Scheduling: JavaScript runs one task at a time.  A user event, a timer  *)
(* firing and the arrival of a network response are tasks.  The rejection  *)
(* of a fetch whose signal was aborted is delivered by promise reactions   *)
(* (microtasks), which run before the next task: the step AbortSettle has  *)
(* priority over every task.                                               *)
(*                                                                         *)
(* Values: null is the empty tuple; a number n held in a nullable place is *)
(* <<n>>; a rate is the fraction <<n, d>> (n / d), so that result / num is *)
(* exact.                                                                  *)
(***************************************************************************)
EXTENDS Integers, Sequences, FiniteSets, TLC

\* ---------------------------------------------------------------- bounds
MaxConv == 2

\* ------------------------------------------------------------ input sets
Null == <<>>

\* strings a number input can hold
Amounts == {"", "0", "1", "10"}

\* exchange rates a provider may report
Rates == {2, 83}

\* key orders a catalog response body may have
KeyLists == {<<>>, <<"USD">>, <<"USD", "INR", "EUR">>}

\* ------------------------------------------------------------- constants
InitAmount == "1"
InitFrom == "USD"
InitTo == "INR"

ErrCatalog == "Unable to load currency list (network / API)."
ErrValidation == "Enter a valid amount (> 0) and pick currencies."
ErrUnexpected == "Conversion failed (unexpected response)."
ErrAllFailed == "All providers failed (network, CORS, or API returned unexpected structure)."

ProviderConvert == "exchangerate.host"
ProviderLatest == "exchangerate.host-latest"
ProviderFrank == "frankfurter"

\* number of endpoints of the fallback chain: /convert, /latest, 3 frankfurter urls
LastEndpoint == 5

\* number of frankfurter currency urls of the loader
LastFrankUrl == 3

\* ------------------------------------------------------------ pure parts

\* parseFloat on the strings of Amounts: <<>> is NaN
ParseFloat(s) ==
  CASE s = "" -> Null
    [] s = "0" -> <<0>>
    [] s = "1" -> <<1>>
    [] s = "10" -> <<10>>

IsNaN(p) == p = Null

\* the guard without its sign test
ValidInput_NoSign(p, f, t) == f # "" /\ t # "" /\ ~IsNaN(p)

\* the guard of the conversion effect, negated: inputs a request is made for
ValidInput(p, f, t) == f # "" /\ t # "" /\ ~IsNaN(p) /\ p[1] > 0

\* a ?? b
Coalesce(a, b) == IF a = Null THEN b ELSE a

\* lexicographic rank of the currency codes (Array.prototype.sort order)
Rank(c) ==
  CASE c = "EUR" -> 1
    [] c = "INR" -> 2
    [] c = "USD" -> 3

RECURSIVE Insert(_, _)
Insert(x, s) ==
  IF s = <<>> THEN <<x>>
  ELSE IF Rank(x) <= Rank(Head(s)) THEN <<x>> \o s
  ELSE <<Head(s)>> \o Insert(x, Tail(s))

RECURSIVE SortKeys(_)
SortKeys(k) == IF k = <<>> THEN <<>> ELSE Insert(Head(k), SortKeys(Tail(k)))

Includes(list, x) == \E i \in 1..Len(list) : list[i] = x

\* list[0] || ""
FirstOr(list) == IF Len(list) >= 1 THEN list[1] ELSE ""

\* list[1] || list[0] || ""
SecondOr(list) == IF Len(list) >= 2 THEN list[2] ELSE FirstOr(list)

IsSorted(list) == \A i \in 1..(Len(list) - 1) : Rank(list[i]) <= Rank(list[i + 1])


\* --------------------------------------------------- convertWithFallback

\* what can come back from one fetch of the chain
FailKinds == {"neterr", "badjson", "empty", "invalid"}

\* the urls that carry amount= to frankfurter (the first two of frankUrls)
PassesAmount(i) == i \in {3, 4}

\* rates[to] of a frankfurter body: the provider scales the rate by amount=
FrankBodyRate(i, num, xr) == IF PassesAmount(i) THEN num * xr ELSE xr

\* structurally valid bodies of endpoint i: v is result or rates[to],
\* info is info.rate (Null when the body has none)
OkPayloads(i, num) ==
  IF i = 1
    THEN {[v |-> num * xr, info |-> ir] : xr \in Rates, ir \in {Null} \cup {<<r, 1>> : r \in Rates}}
    ELSE IF i = 2
      THEN {[v |-> xr, info |-> Null] : xr \in Rates}
      ELSE {[v |-> FrankBodyRate(i, num, xr), info |-> Null] : xr \in Rates}

\* the derived rate taken to be the result itself
ConvertReturn_NoDivide(num, res, info) ==
  [result |-> <<res>>, rate |-> Coalesce(info, <<res, 1>>), provider |-> ProviderConvert]

ConvertReturn(num, res, info) ==
  [result |-> <<res>>, rate |-> Coalesce(info, <<res, num>>), provider |-> ProviderConvert]

\* the /latest result tagged as a /convert result
LatestReturn_WrongTag(num, r) ==
  [result |-> <<num * r>>, rate |-> <<r, 1>>, provider |-> ProviderConvert]

LatestReturn(num, r) ==
  [result |-> <<num * r>>, rate |-> <<r, 1>>, provider |-> ProviderLatest]

FrankReturn(num, r) ==
  [result |-> <<num * r>>, rate |-> <<r, 1>>, provider |-> ProviderFrank]

ReturnFor(i, num, p) ==
  IF i = 1 THEN ConvertReturn(num, p.v, p.info)
  ELSE IF i = 2 THEN LatestReturn(num, p.v)
  ELSE FrankReturn(num, p.v)

\* what one try block of the chain does with the outcome of its fetch:
\* an exception (network error, AbortError, JSON.parse error rethrown by
\* safeJson) is caught by the block's own catch; a null or ill-shaped body
\* fails the if and falls out of the block; a valid body returns
\* an exception that no try block catches leaves the call ("escape")
Attempt_JsonEscapes(kind) ==
  CASE kind \in {"neterr", "abort"} -> "caught"
    [] kind = "badjson" -> "escape"
    [] kind \in {"empty", "invalid"} -> "fallthrough"
    [] kind = "ok" -> "return"

Attempt(kind) ==
  CASE kind \in {"neterr", "badjson", "abort"} -> "caught"
    [] kind \in {"empty", "invalid"} -> "fallthrough"
    [] kind = "ok" -> "return"

\* the exception behind an outcome: fetch rejects with TypeError on a network
\* failure and with AbortError on abort, JSON.parse throws SyntaxError
ThrownBy(kind) ==
  CASE kind = "neterr" -> [name |-> "TypeError", message |-> "Failed to fetch"]
    [] kind = "badjson" -> [name |-> "SyntaxError", message |-> "Unexpected token"]
    [] kind = "abort" -> [name |-> "AbortError", message |-> "The operation was aborted."]
    [] OTHER -> [name |-> "Error", message |-> ""]

\* the chain skipping an endpoint
NextEndpoint_Skip(i) == i + 2

\* the endpoint tried after endpoint i
NextEndpoint(i) == i + 1

\* the error thrown after the last endpoint
ExhaustedError == [name |-> "Error", message |-> ErrAllFailed]

NoRet == [result |-> Null, rate |-> Null, provider |-> ""]

NoErr == [name |-> "", message |-> ""]

NoBody == [v |-> 0, info |-> Null]

NoConv ==
  [id |-> 0, num |-> 0, from |-> "", to |-> "", stage |-> 0, aborted |-> FALSE,
   reqs |-> <<>>, outs |-> <<>>, body |-> NoBody, ret |-> NoRet, raised |-> 0,
   err |-> NoErr]

\* a call of convertWithFallback suspended at its first fetch
NewConv(id, tm) ==
  [id |-> id, num |-> tm.num, from |-> tm.from, to |-> tm.to, stage |-> 1,
   aborted |-> FALSE, reqs |-> <<1>>, outs |-> <<>>, body |-> NoBody, ret |-> NoRet,
   raised |-> 0, err |-> NoErr]

\* the call after the outcome kind of the fetch it awaits (p: the body when ok)
AfterOutcome(c, kind, p) ==
  IF Attempt(kind) = "return"
    THEN [c EXCEPT !.outs = Append(@, Attempt(kind)), !.body = p,
                   !.ret = ReturnFor(c.stage, c.num, p)]
    ELSE IF Attempt(kind) = "escape"
      THEN [c EXCEPT !.outs = Append(@, Attempt(kind)), !.raised = @ + 1, !.err = ThrownBy(kind)]
    ELSE IF c.stage < LastEndpoint
      THEN [c EXCEPT !.outs = Append(@, Attempt(kind)), !.stage = NextEndpoint(c.stage),
                     !.reqs = Append(@, NextEndpoint(c.stage))]
      ELSE [c EXCEPT !.outs = Append(@, Attempt(kind)), !.raised = @ + 1, !.err = ExhaustedError]

\* the call once its signal is aborted: the awaited fetch rejects with
\* AbortError, and so does every later fetch (made with the aborted signal,
\* it sends nothing); each rejection is caught by its own try block
AfterAbort(c) ==
  IF Attempt("abort") = "escape"
    THEN [c EXCEPT !.outs = Append(@, Attempt("abort")), !.raised = @ + 1,
                   !.err = ThrownBy("abort")]
    ELSE [c EXCEPT !.outs = @ \o [k \in 1..(LastEndpoint - c.stage + 1) |-> Attempt("abort")],
                   !.stage = LastEndpoint, !.raised = @ + 1, !.err = ExhaustedError]

\* abort() having no effect on the controller
AbortCtl_Noop(infl, ref) == infl

\* AbortController.abort() on the controller held by abortRef
AbortCtl(infl, ref) ==
  IF ref # Null /\ ref[1] \in DOMAIN infl
    THEN [infl EXCEPT ![ref[1]].aborted = TRUE]
    ELSE infl

\* clearTimeout leaving the timer armed
ClearTimeout_Noop(tms, ref) == tms

\* clearTimeout(debounceRef.current)
ClearTimeout(tms, ref) == IF ref = Null THEN tms ELSE tms \ {ref[1]}

\* the try branch of the debounced callback: [result, rate, error] it sets
ApplyConverted(ret, num) ==
  IF ret # NoRet /\ ret.result # Null
    THEN [result |-> ret.result, rate |-> Coalesce(ret.rate, <<ret.result[1], num>>), error |-> ""]
    ELSE [result |-> Null, rate |-> Null, error |-> ErrUnexpected]

\* the catch branch setting the error only
CatchUI_KeepsResult(err, ui) ==
  IF err.name = "AbortError"
    THEN ui
    ELSE [result |-> ui.result, rate |-> ui.rate, error |-> err.message]

\* the catch branch of the debounced callback, ui = [result, rate, error]
CatchUI(err, ui) ==
  IF err.name = "AbortError"
    THEN ui
    ELSE [result |-> Null, rate |-> Null, error |-> err.message]

\* whether the catch branch calls the state setters
CatchSets(err) == err.name # "AbortError"

Remove(f, c) == [x \in DOMAIN f \ {c} |-> f[x]]

\* ------------------------------------------------------------------ state
VARIABLES
  amount, from, to, currencies, result, rate, error, loading,  \* useState
  debounceRef, abortRef,     \* useRef
  timers,                    \* pending setTimeout callbacks (their closures)
  inflight,                  \* suspended calls of convertWithFallback, by id
  nextId,                    \* id of the next AbortController
  hasCleanup,                \* the last run of the conversion effect returned a cleanup
  loader,                    \* loadCurrencies: position and history
  cancelled,                 \* the loader effect's cancelled flag
  mounted,
  ev,                        \* the last step taken
  resultFresh                \* result was set by a conversion of the inputs now
                             \* selected, and no input has changed since

vars == <<amount, from, to, currencies, result, rate, error, loading, debounceRef,
          abortRef, timers, inflight, nextId, hasCleanup, loader, cancelled, mounted, ev,
          resultFresh>>

uiVars == <<result, rate, error>>

\* the step taken: its kind, the call it resumed, whether it called the
\* result / rate / error setters, and whether a result was stored before it
\* out is the outcome of the fetch the step delivered ("" when it delivered none)
EventOut(kind, c, sets, out) ==
  [kind |-> kind, c |-> c, sets |-> sets, had |-> result # Null, out |-> out]

Event(kind, c, sets) == EventOut(kind, c, sets, "")

Live(infl) == {c \in DOMAIN infl : ~infl[c].aborted}

Aborted(infl) == {c \in DOMAIN infl : infl[c].aborted}

\* the rejection of an aborted fetch delivered as a task like any other
MicrotaskPending_Never == FALSE

\* promise reactions of an aborted call are queued
MicrotaskPending == Aborted(inflight) # {}

Init ==
  /\ amount = InitAmount
  /\ from = InitFrom
  /\ to = InitTo
  /\ currencies = <<>>
  /\ result = Null
  /\ rate = Null
  /\ resultFresh = FALSE
  /\ error = ""
  /\ loading = FALSE
  /\ debounceRef = <<[num |-> 1, from |-> InitFrom, to |-> InitTo]>>
  /\ abortRef = Null
  /\ timers = {[num |-> 1, from |-> InitFrom, to |-> InitTo]}
  /\ inflight = <<>>
  /\ nextId = 1
  /\ hasCleanup = TRUE
  /\ loader = [stage |-> 0, a |-> "pending", src |-> "none"]
  /\ cancelled = FALSE
  /\ mounted = TRUE
  /\ ev = Event("mount", NoConv, FALSE)

\* the cleanup returned by the conversion effect, then the effect body, for
\* the inputs a, f, t of the new render
Effect(a, f, t) ==
  LET tms1 == IF hasCleanup THEN ClearTimeout(timers, debounceRef) ELSE timers
      infl1 == IF hasCleanup THEN AbortCtl(inflight, abortRef) ELSE inflight
      ref1 == IF hasCleanup THEN Null ELSE abortRef
      infl2 == AbortCtl(infl1, ref1)
      p == ParseFloat(a)
      tm == [num |-> p[1], from |-> f, to |-> t]
  IN /\ amount' = a
     /\ from' = f
     /\ to' = t
     /\ inflight' = infl2
     /\ abortRef' = Null
     /\ IF ~ValidInput(p, f, t)
          THEN /\ result' = Null
               /\ rate' = Null
               /\ error' = IF a # "" THEN ErrValidation ELSE ""
               /\ timers' = tms1
               /\ debounceRef' = debounceRef
               /\ hasCleanup' = FALSE
          ELSE /\ error' = ""
               /\ timers' = ClearTimeout(tms1, debounceRef) \cup {tm}
               /\ debounceRef' = <<tm>>
               /\ hasCleanup' = TRUE
               /\ UNCHANGED <<result, rate>>
     /\ resultFresh' = FALSE
     /\ UNCHANGED loading

\* onChange of the amount input
ChangeAmount(a) ==
  /\ mounted /\ ~MicrotaskPending
  /\ a # amount
  /\ Effect(a, from, to)
  /\ ev' = Event("input", NoConv, TRUE)
  /\ UNCHANGED <<currencies, nextId, loader, cancelled, mounted>>

\* onChange of the source CurrencySelector
ChangeFrom(c) ==
  /\ mounted /\ ~MicrotaskPending
  /\ Includes(currencies, c) /\ c # from
  /\ Effect(amount, c, to)
  /\ ev' = Event("input", NoConv, TRUE)
  /\ UNCHANGED <<currencies, nextId, loader, cancelled, mounted>>

\* onChange of the target CurrencySelector
ChangeTo(c) ==
  /\ mounted /\ ~MicrotaskPending
  /\ Includes(currencies, c) /\ c # to
  /\ Effect(amount, from, c)
  /\ ev' = Event("input", NoConv, TRUE)
  /\ UNCHANGED <<currencies, nextId, loader, cancelled, mounted>>

handleSwap ==
  /\ mounted /\ ~MicrotaskPending
  /\ from # to
  /\ Effect(amount, to, from)
  /\ ev' = Event("input", NoConv, TRUE)
  /\ UNCHANGED <<currencies, nextId, loader, cancelled, mounted>>


\* the debounce timer fires: the async callback runs up to its first await
TimerFires(tm) ==
  /\ ~MicrotaskPending
  /\ tm \in timers
  /\ nextId <= MaxConv
  /\ timers' = timers \ {tm}
  /\ loading' = (IF mounted THEN TRUE ELSE loading)
  /\ abortRef' = <<nextId>>
  /\ inflight' = (nextId :> NewConv(nextId, tm)) @@ inflight
  /\ nextId' = nextId + 1
  /\ ev' = Event("timer", NewConv(nextId, tm), mounted)
  /\ UNCHANGED <<amount, from, to, currencies, result, rate, resultFresh, error, debounceRef,
                 hasCleanup, loader, cancelled, mounted>>

\* the callback without its finally block
Completes_NoFinally(c, kind, out) ==
  LET ui == [result |-> result, rate |-> rate, error |-> error]
      new == IF c.err = NoErr THEN ApplyConverted(c.ret, c.num) ELSE CatchUI(c.err, ui)
      sets == mounted /\ (c.err = NoErr \/ CatchSets(c.err))
  IN /\ result' = (IF mounted THEN new.result ELSE result)
     /\ rate' = (IF mounted THEN new.rate ELSE rate)
     /\ resultFresh' = (IF mounted
                          THEN c.err = NoErr /\ new.result # Null /\ ParseFloat(amount) = <<c.num>>
                               /\ from = c.from /\ to = c.to
                          ELSE resultFresh)
     /\ error' = (IF mounted THEN new.error ELSE error)
     /\ loading' = loading
     /\ abortRef' = abortRef
     /\ inflight' = Remove(inflight, c.id)
     /\ ev' = EventOut(kind, c, sets, out)

\* the callback resumes after convertWithFallback returned or threw:
\* try / catch branch, then finally
Completes(c, kind, out) ==
  LET ui == [result |-> result, rate |-> rate, error |-> error]
      new == IF c.err = NoErr THEN ApplyConverted(c.ret, c.num) ELSE CatchUI(c.err, ui)
      sets == mounted /\ (c.err = NoErr \/ CatchSets(c.err))
  IN /\ result' = (IF mounted THEN new.result ELSE result)
     /\ rate' = (IF mounted THEN new.rate ELSE rate)
     /\ resultFresh' = (IF mounted
                          THEN c.err = NoErr /\ new.result # Null /\ ParseFloat(amount) = <<c.num>>
                               /\ from = c.from /\ to = c.to
                          ELSE resultFresh)
     /\ error' = (IF mounted THEN new.error ELSE error)
     /\ loading' = (IF mounted THEN FALSE ELSE loading)
     /\ abortRef' = Null
     /\ inflight' = Remove(inflight, c.id)
     /\ ev' = EventOut(kind, c, sets, out)

\* the fetch awaited by a call that is not aborted settles
Responds(id, kind, p) ==
  /\ ~MicrotaskPending
  /\ id \in Live(inflight)
  /\ LET c == AfterOutcome(inflight[id], kind, p)
     IN IF c.ret # NoRet
          THEN Completes(c, "resolved", kind)
          ELSE IF c.err # NoErr
            THEN Completes(c, "rejected", kind)
            ELSE /\ inflight' = [inflight EXCEPT ![id] = c]
                 /\ ev' = EventOut("next", c, FALSE, kind)
                 /\ UNCHANGED <<result, rate, resultFresh, error, loading, abortRef>>
  /\ UNCHANGED <<amount, from, to, currencies, debounceRef, timers, nextId,
                 hasCleanup, loader, cancelled, mounted>>

RespondsFail(id, kind) ==
  /\ kind \in FailKinds
  /\ Responds(id, kind, NoBody)

RespondsOk(id, p) ==
  /\ id \in DOMAIN inflight
  /\ p \in OkPayloads(inflight[id].stage, inflight[id].num)
  /\ Responds(id, "ok", p)

\* the promise reactions of an aborted call run to the end of the callback
AbortSettle(id) ==
  /\ id \in Aborted(inflight)
  /\ Completes(AfterAbort(inflight[id]), "abortsettle", "abort")
  /\ UNCHANGED <<amount, from, to, currencies, debounceRef, timers, nextId,
                 hasCleanup, loader, cancelled, mounted>>

\* ---------------------------------------------------------- loadCurrencies

\* the catalog branch of loadCurrencies: setCurrencies, then the defaults,
\* tested against the from / to of the render that started the loader
TakeCatalog(list, src, a) ==
  LET f == IF Includes(list, InitFrom) THEN from ELSE FirstOr(list)
      t == IF Includes(list, InitTo) THEN to ELSE SecondOr(list)
  IN /\ currencies' = list
     /\ loader' = [stage |-> LastFrankUrl + 1, a |-> a, src |-> src]
     /\ ev' = Event(IF f # from \/ t # to THEN "defaults" ELSE "catalog", NoConv, TRUE)
     /\ IF f # from \/ t # to
          THEN Effect(amount, f, t)
          ELSE UNCHANGED <<amount, from, to, result, rate, resultFresh, error, loading, debounceRef,
                           abortRef, timers, inflight, hasCleanup>>
     /\ UNCHANGED <<nextId, cancelled, mounted>>

\* whether the body of the symbols response passes  d && d.symbols
SymbolsAccepted(a) == a \in {"empty", "nonempty"}

\* whether the body of a currencies response passes the frankfurter test
CurrenciesAccepted(keys) == Len(keys) > 0

\* the loader moves on to the next url, or gives up after the last one
LoaderNext(a) ==
  /\ loader' = [stage |-> loader.stage + 1, a |-> a, src |-> "none"]
  /\ IF loader.stage = LastFrankUrl /\ ~cancelled
       THEN error' = ErrCatalog /\ ev' = Event("nocatalog", NoConv, TRUE)
       ELSE error' = error /\ ev' = Event("loadernext", NoConv, FALSE)
  /\ UNCHANGED <<amount, from, to, currencies, result, rate, resultFresh, loading, debounceRef,
                 abortRef, timers, inflight, nextId, hasCleanup, cancelled, mounted>>

\* the symbols request of exchangerate.host settles: a is "fail" (fetch or
\* r.json() threw), "nosymbols" (no symbols member), or the symbols object
\* had the keys given ("empty" when keys is <<>>)
SymbolsResponds(a, keys) ==
  /\ ~MicrotaskPending
  /\ loader.stage = 0
  /\ a \in {"fail", "nosymbols", "empty", "nonempty"}
  /\ (a = "nonempty") <=> (keys # <<>>)
  /\ IF ~cancelled /\ SymbolsAccepted(a)
       THEN TakeCatalog(SortKeys(keys), "A", a)
       ELSE LoaderNext(a)

\* a frankfurter currencies request settles: ok is FALSE when fetch or
\* r.json() threw, else the body had the keys given
CurrenciesResponds(ok, keys) ==
  /\ ~MicrotaskPending
  /\ loader.stage \in 1..LastFrankUrl
  /\ ok \/ keys = <<>>
  /\ IF ok /\ ~cancelled /\ CurrenciesAccepted(keys)
       THEN TakeCatalog(SortKeys(keys), "B", loader.a)
       ELSE LoaderNext(loader.a)

\* the component unmounts: both effects' cleanups run
Unmount ==
  /\ mounted /\ ~MicrotaskPending
  /\ mounted' = FALSE
  /\ cancelled' = TRUE
  /\ timers' = (IF hasCleanup THEN ClearTimeout(timers, debounceRef) ELSE timers)
  /\ inflight' = (IF hasCleanup THEN AbortCtl(inflight, abortRef) ELSE inflight)
  /\ abortRef' = (IF hasCleanup THEN Null ELSE abortRef)
  /\ hasCleanup' = FALSE
  /\ ev' = Event("unmount", NoConv, FALSE)
  /\ UNCHANGED <<amount, from, to, currencies, result, rate, resultFresh, error, loading,
                 debounceRef, nextId, loader>>

Codes == {"EUR", "INR", "USD"}

Next ==
  \/ \E a \in Amounts : ChangeAmount(a)
  \/ \E c \in Codes : ChangeFrom(c)
  \/ \E c \in Codes : ChangeTo(c)
  \/ handleSwap
  \/ \E tm \in timers : TimerFires(tm)
  \/ \E id \in DOMAIN inflight, kind \in FailKinds : RespondsFail(id, kind)
  \/ \E id \in DOMAIN inflight :
       \E p \in OkPayloads(inflight[id].stage, inflight[id].num) : RespondsOk(id, p)
  \/ \E id \in DOMAIN inflight : AbortSettle(id)
  \/ \E a \in {"fail", "nosymbols", "empty", "nonempty"}, keys \in KeyLists : SymbolsResponds(a, keys)
  \/ \E ok \in BOOLEAN, keys \in KeyLists : CurrenciesResponds(ok, keys)
  \/ Unmount

Spec == Init /\ [][Next]_vars

TypeOK ==
  /\ amount \in Amounts
  /\ loading \in BOOLEAN
  /\ nextId \in 1..(MaxConv + 1)
  /\ DOMAIN inflight \subseteq 1..MaxConv


\* ----------------------------------------------------------------- claims

InvalidAmount == IsNaN(ParseFloat(amount)) \/ ParseFloat(amount)[1] <= 0

\* C1: once an input change has cancelled a conversion, that conversion
\* never writes result, rate or error again: the step in which the
\* cancelled conversion settles leaves the three unchanged.
C1_CancelledNeverWrites ==
  [][(ev'.kind = "abortsettle") => (result' = result /\ rate' = rate /\ error' = error)]_vars

\* C2: a conversion whose signal was aborted is discarded silently: when it
\* settles it calls no setter, and the UI does not hold its error message.
C2_AbortedIsSilent ==
  (ev.kind = "abortsettle") => (~ev.sets /\ (mounted => error # ev.c.err.message))

\* C3: with source = target no request is issued (no timer is armed and no
\* conversion is in flight for such inputs) and the validation error is shown.
C3_SameCurrencyRejected ==
  /\ \A tm \in timers : tm.from # tm.to
  /\ \A id \in DOMAIN inflight : inflight[id].from # inflight[id].to
  /\ (mounted /\ from = to /\ from # "" /\ ev.kind \in {"input", "defaults"}) => error = ErrValidation

\* C7: an empty symbol mapping from provider A is not taken as the catalog;
\* the catalog then comes, sorted, from a non-empty provider B response.
C7_EmptySymbolsFallsBack ==
  (loader.a = "empty") =>
    /\ loader.src # "A"
    /\ (loader.src = "B" => (currencies # <<>> /\ IsSorted(currencies)))


\* the calls of convertWithFallback the state knows: those suspended, and
\* the one the last step resumed
Calls == {inflight[id] : id \in DOMAIN inflight} \cup (IF ev.c = NoConv THEN {} ELSE {ev.c})

ProviderOf(i) ==
  IF i = 1 THEN ProviderConvert ELSE IF i = 2 THEN ProviderLatest ELSE ProviderFrank

\* C4: within one call the endpoints are requested in the order 1..5, each
\* at most once; an endpoint is requested only after every earlier one was
\* caught or fell through; after a valid response nothing more is requested
\* and the returned value is the one built from that endpoint's response.
C4_FallbackOrder ==
  \A c \in Calls :
    /\ Len(c.reqs) \in 1..LastEndpoint
    /\ \A k \in 1..Len(c.reqs) : c.reqs[k] = k
    /\ Len(c.outs) >= Len(c.reqs) - 1
    /\ \A k \in 1..(Len(c.reqs) - 1) : c.outs[k] \in {"caught", "fallthrough"}
    /\ (c.ret # NoRet) =>
         /\ c.id \notin DOMAIN inflight
         /\ Len(c.outs) = Len(c.reqs)
         /\ c.outs[Len(c.outs)] = "return"
         /\ c.ret.provider = ProviderOf(Len(c.reqs))
         /\ c.ret = ReturnFor(Len(c.reqs), c.num, c.body)
    /\ (~c.aborted /\ c.err # NoErr) => Len(c.reqs) = LastEndpoint

\* the last frankfurter url answered validly after four failures
C4_Witness ==
  /\ ev.kind = "resolved"
  /\ ev.c.reqs = <<1, 2, 3, 4, 5>>
  /\ ev.c.ret.provider = ProviderFrank

\* C5: when every endpoint failed for a conversion that was not cancelled,
\* convertWithFallback raised one error, the unavailability error, and the
\* UI then holds that error with result and rate null.
C5_AllFailedClears ==
  (ev.kind = "rejected") =>
    /\ ~ev.c.aborted
    /\ Len(ev.c.reqs) = LastEndpoint
    /\ \A k \in 1..LastEndpoint : ev.c.outs[k] \in {"caught", "fallthrough"}
    /\ ev.c.raised = 1
    /\ ev.c.err = ExhaustedError
    /\ mounted
    /\ error = ErrAllFailed
    /\ result = Null
    /\ rate = Null

\* a conversion was rejected while the result of an earlier one was stored
C5_Witness == ev.kind = "rejected" /\ ev.had /\ ev.c.id > 1

\* C6: /convert failed and /latest answered with rate r: the call returns
\* result = amount * r, rate = r, tagged exchangerate.host-latest, and no
\* frankfurter url was requested.
C6_LatestFallback ==
  (ev.kind = "resolved" /\ Len(ev.c.outs) = 2) =>
    /\ ev.c.reqs = <<1, 2>>
    /\ ev.c.ret.result = <<ev.c.num * ev.c.body.v>>
    /\ ev.c.ret.rate = <<ev.c.body.v, 1>>
    /\ ev.c.ret.provider = ProviderLatest
    /\ result = <<ev.c.num * ev.c.body.v>>
    /\ rate = <<ev.c.body.v, 1>>

\* 10 units converted at 83 through /latest
C6_Witness ==
  /\ ev.kind = "resolved"
  /\ ev.c.reqs = <<1, 2>>
  /\ ev.c.num = 10
  /\ ev.c.body.v = 83
  /\ result = <<830>>

\* result = amount * rate, for a rate n / d
Consistent(res, rt, num) == res # Null /\ rt # Null /\ res[1] * rt[2] = num * rt[1]

\* C9 as stated: after every valid response, on every path, the stored
\* result and rate satisfy result = amount * rate.
C9_ResultIsAmountTimesRate ==
  (ev.kind = "resolved") => Consistent(result, rate, ev.c.num)

\* C9 amended: result = amount * rate holds on the /latest and frankfurter
\* paths and on the /convert path when the body has no info.rate (the rate
\* is result / amount); when the /convert body has both, the UI stores the
\* provider's result and the provider's info.rate as they are.
C9_Amended ==
  (ev.kind = "resolved") =>
    /\ ParseFloat(amount) = <<ev.c.num>>
    /\ IF Len(ev.c.reqs) = 1 /\ ev.c.body.info # Null
         THEN result = <<ev.c.body.v>> /\ rate = ev.c.body.info
         ELSE Consistent(result, rate, ev.c.num)

\* the rate was derived from the /convert result of 10 units
C9_Witness ==
  /\ ev.kind = "resolved"
  /\ Len(ev.c.reqs) = 1
  /\ ev.c.body.info = Null
  /\ ev.c.num = 10
  /\ rate = <<result[1], 10>>

C10_SingleFlight ==
  /\ Cardinality(Live(inflight)) <= 1
  /\ \A id \in Live(inflight) : abortRef = <<id>>
  /\ (ev.kind \in {"input", "defaults", "unmount"}) => Live(inflight) = {}

\* a valid input change cancelled the conversion in flight and armed a timer
C10_Witness ==
  /\ ev.kind = "input"
  /\ Aborted(inflight) # {}
  /\ timers # {}

\* the closure a timer armed for the current inputs carries
CurrentClosure == [num |-> ParseFloat(amount)[1], from |-> from, to |-> to]

\* C11: at most one debounce timer is pending, and it is the one armed for
\* the current inputs (every input change cancelled the one before); the
\* conversion a timer starts uses the inputs of the last change.
C11_OneTimerLastInputs ==
  /\ Cardinality(timers) <= 1
  /\ \A tm \in timers :
       /\ ~InvalidAmount
       /\ tm = CurrentClosure
       /\ debounceRef = <<tm>>
  /\ (ev.kind = "timer") =>
       /\ timers = {}
       /\ ~InvalidAmount
       /\ [num |-> ev.c.num, from |-> ev.c.from, to |-> ev.c.to] = CurrentClosure

\* the first conversion starts after a burst: source and amount were both
\* changed before any timer fired, and it carries the last values
C11_Witness ==
  /\ ev.kind = "timer"
  /\ ev.c.id = 1
  /\ ev.c.num = 10
  /\ ev.c.from = "EUR"
  /\ ev.c.to = "INR"

\* C12: once a non-empty catalog is stored, the selected source and target
\* are both codes of the catalog.
C12_SelectionInCatalog ==
  (mounted /\ currencies # <<>>) => (Includes(currencies, from) /\ Includes(currencies, to))

\* C13: once the catalog-unavailable notice is shown it stays shown and the
\* catalog stays empty, whatever step follows.
C13_NoticePersists ==
  [][(error = ErrCatalog) => (error' = ErrCatalog /\ currencies' = <<>>)]_vars

C15_FrankVariantsAgree ==
  (ev.kind = "resolved" /\ Len(ev.c.reqs) >= 3) =>
    \E xr \in Rates :
      /\ FrankBodyRate(Len(ev.c.reqs), ev.c.num, xr) = ev.c.body.v
      /\ ev.c.ret.result = <<ev.c.num * xr>>
      /\ ev.c.ret.rate = <<xr, 1>>

\* a result is on display
Displayed == mounted /\ ~loading /\ error = "" /\ result # Null

\* C16: a result on display (loading false, error empty, result not null)
\* was computed for the amount, source and target shown with it; right
\* after an input change no result of the previous inputs is displayed.
C16_NoStaleResult ==
  /\ Displayed => (~InvalidAmount /\ resultFresh)
  /\ (Displayed /\ ev.kind \in {"input", "defaults"}) => result = Null

\* C17: while a conversion whose signal is not aborted is in flight, loading
\* is true and abortRef holds its controller; a cancelled conversion never
\* completes while a later conversion is in flight, so its finally block
\* never resets loading or abortRef under that conversion.
C17_LoadingWhileInFlight ==
  /\ \A id \in Live(inflight) : mounted /\ loading /\ abortRef = <<id>>
  /\ (ev.kind = "abortsettle") => Live(inflight) = {}
  /\ \A id \in Aborted(inflight) : Live(inflight) = {}

\* a second conversion is in flight after the first one was cancelled and
\* has settled (its error is still in the error state)
C17_Witness ==
  /\ ev.kind = "timer"
  /\ ev.c.id = 2
  /\ error = ErrAllFailed
  /\ loading
  /\ abortRef = <<2>>

\* ------------------------------------------------------------- liveness

\* a step of the event loop that is not a user event: a timer fires, a
\* request is answered or fails, queued promise reactions run
SystemStep ==
  \/ \E tm \in timers : TimerFires(tm)
  \/ \E id \in DOMAIN inflight :
       \/ \E kind \in FailKinds : RespondsFail(id, kind)
       \/ \E p \in OkPayloads(inflight[id].stage, inflight[id].num) : RespondsOk(id, p)
       \/ AbortSettle(id)
  \/ \E a \in {"fail", "nosymbols", "empty", "nonempty"}, keys \in KeyLists : SymbolsResponds(a, keys)
  \/ \E ok \in BOOLEAN, keys \in KeyLists : CurrenciesResponds(ok, keys)

\* the event loop keeps running what is pending: every issued request is
\* answered or fails, a pending timer fires
FairSpec == Spec /\ WF_vars(SystemStep)

\* a step that changes an input
InputStep == ev'.kind = "input"

\* nothing is pending: no timer, no call, the loader is over
Quiescent ==
  mounted /\ inflight = <<>> /\ timers = {} /\ loader.stage = LastFrankUrl + 1

\* the conversion budget of the model is used up with a timer still armed
Capped == nextId > MaxConv /\ timers # {}

ShowsResult == result # Null /\ rate # Null /\ error = "" /\ resultFresh

ShowsConversionError == error \in {ErrAllFailed, ErrUnexpected} /\ result = Null /\ rate = Null

ShowsValidationError == error = ErrValidation /\ result = Null /\ rate = Null

ShowsPrompt == amount = "" /\ error = "" /\ result = Null /\ rate = Null

ShowsCatalogNotice == error = ErrCatalog /\ (result # Null => resultFresh)

\* C18 as stated, the final state: when nothing is pending every call has
\* made at most 5 requests, loading is false, and the UI shows a result for
\* the last inputs, a conversion error, or a validation error.
C18_FinalState ==
  /\ \A c \in Calls : Len(c.reqs) <= 5
  /\ Quiescent => (~loading /\ (ShowsResult \/ ShowsConversionError \/ ShowsValidationError))

\* the final states the code has
FinalUI ==
  ShowsResult \/ ShowsConversionError \/ ShowsValidationError \/ ShowsPrompt \/ ShowsCatalogNotice

C18_Safety ==
  /\ \A c \in Calls : Len(c.reqs) <= 5
  /\ Quiescent => (~loading /\ FinalUI)

Settled == ~mounted \/ Capped \/ (Quiescent /\ ~loading /\ FinalUI)

\* C18 amended: every call makes at most 5 requests; if the inputs stop
\* changing, the component ends with nothing pending, loading false, and
\* the UI showing a result for the last inputs, a conversion error, a
\* validation error, the catalog notice, or (for an empty amount) neither
\* result nor error.
C18_Amended ==
  /\ []C18_Safety
  /\ ([]<><<InputStep>>_vars) \/ <>[]Settled

\* a conversion ended on its fifth request and left nothing pending
C18_Witness ==
  /\ Quiescent
  /\ ~loading
  /\ ev.kind = "resolved"
  /\ Len(ev.c.reqs) = 5
  /\ ShowsResult

====
